---- MODULE Spec2Model ----
(***************************************************************************)
(* Credential issuance and verification of the education platform:         *)
(*   - the EducationCredentialNFT contract (EducationNFT.sol),             *)
(*   - the ledger adapter BlockchainService (securityManager.js),          *)
(*   - the claim / verify handlers of the certificate controller           *)
(*     (courseController.js) over the Enrollment collection.               *)
(* Strings that are only compared or concatenated (hashes, CIDs) are       *)
(* sequences of characters; a character is a natural number.               *)
(***************************************************************************)
EXTENDS Integers, Sequences, FiniteSets, TLC

\* ------------------------------------------------------------------ bounds
MaxTokens == 2
MaxTime == 3
MaxBatchLen == 2

\* ------------------------------------------------------- program constants
MaxBatchSize == 50

\* --------------------------------------------------------------- addresses
ZeroAddress == "0x0"
Deployer == "deployer"
Holders == {"alice", "bob"}
Accounts == {Deployer} \cup Holders

ISSUER_ROLE == "ISSUER_ROLE"
VERIFIER_ROLE == "VERIFIER_ROLE"
UPGRADER_ROLE == "UPGRADER_ROLE"
DEFAULT_ADMIN_ROLE == "DEFAULT_ADMIN_ROLE"
Roles == {DEFAULT_ADMIN_ROLE, ISSUER_ROLE, VERIFIER_ROLE, UPGRADER_ROLE}

\* A string of n characters.
Str(n) == [i \in 1..n |-> 1]

VARIABLES
    now,                \* block.timestamp
    tokenIdCounter,     \* _tokenIdCounter
    credentials,        \* mapping(uint256 => Credential); absent key = zero struct
    usedHashes,         \* mapping(bytes32 => bool), as the set of keys mapped to true
    revokedCredentials, \* mapping(uint256 => bool), as the set of ids mapped to true
    issuerCredentials,  \* mapping(address => uint256[])
    owners,             \* ERC721 _owners; its domain is the set of existing tokens
    operatorApprovals,  \* ERC721 _operatorApprovals, as a set of <<owner, operator>>
    emergencyPaused,    \* bool emergencyPaused
    roles,              \* AccessControl: role -> set of members
    issued,             \* history: every token ever minted -> recipient and hashes
    everRevoked,        \* history: every token a revokeCredential call revoked
    enrollments,        \* the Enrollment collection
    strictQuery,        \* whether Mongoose casts query filters by the schema
    certificates,       \* the Certificate collection, by token id
    pinned,             \* the enrollments whose metadata the IPFS service holds
    calls,              \* the external systems the latest mint request called
    response,           \* the most recent HTTP response of the controller
    inflight            \* the requests being handled concurrently, each at an await

ledgerVars == <<tokenIdCounter, credentials, usedHashes, revokedCredentials,
                issuerCredentials, owners, operatorApprovals, emergencyPaused, roles>>
backendVars == <<enrollments, strictQuery, certificates, pinned, calls, response,
                 inflight>>
vars == <<now, ledgerVars, issued, everRevoked, backendVars>>

\* The contract storage as one value, as a call sees it.
Ledger ==
    [now |-> now,
     tokenIdCounter |-> tokenIdCounter,
     credentials |-> credentials,
     usedHashes |-> usedHashes,
     revokedCredentials |-> revokedCredentials,
     issuerCredentials |-> issuerCredentials,
     owners |-> owners,
     operatorApprovals |-> operatorApprovals,
     emergencyPaused |-> emergencyPaused,
     roles |-> roles]

\* The zero value of struct Credential. completionDate, which mint sets to
\* block.timestamp and no function of the contract reads, is not kept.
ZeroCredential ==
    [courseHash |-> <<>>, studentHash |-> <<>>,
     evaluationHash |-> <<>>, ipfsMetadata |-> <<>>, credentialType |-> 0,
     isRevocable |-> FALSE, isSoulbound |-> FALSE, issuer |-> ZeroAddress,
     validUntil |-> 0, zkProof |-> <<>>, isVerified |-> FALSE]

\* credentials[tokenId] as Solidity reads a mapping.
CredentialOf(s, tokenId) ==
    IF tokenId \in DOMAIN s.credentials THEN s.credentials[tokenId] ELSE ZeroCredential

\* A call that reverts: the storage is as before the call.
Revert(s, reason) == [ok |-> FALSE, err |-> reason, st |-> s, ret |-> 0]
Return(s, value) == [ok |-> TRUE, err |-> "", st |-> s, ret |-> value]

\* ------------------------------------------------------------ ERC721 parts
_exists(s, tokenId) == tokenId \in DOMAIN s.owners

hasRole(s, role, account) == account \in s.roles[role]

\* OpenZeppelin Pausable: _paused is set by __Pausable_init and by no function
\* of the contract (no function calls _pause).
paused == FALSE

_isApprovedOrOwner(s, spender, tokenId) ==
    \/ s.owners[tokenId] = spender
    \/ <<s.owners[tokenId], spender>> \in s.operatorApprovals

\* validUntil > 0 && validUntil < block.timestamp
ExpiredAt(cred, timestamp) == cred.validUntil > 0 /\ cred.validUntil < timestamp

\* _beforeTokenTransfer without the soulbound rule.
_beforeTokenTransfer_NoSoulbound(s, from, to, tokenId) ==
    LET cred == CredentialOf(s, tokenId) IN
    IF tokenId \in s.revokedCredentials
        THEN "Revoked credential cannot be transferred"
    ELSE IF ExpiredAt(cred, s.now)
        THEN "Expired credential cannot be transferred"
    ELSE ""

\* _beforeTokenTransfer without the revocation rule.
_beforeTokenTransfer_NoRevoked(s, from, to, tokenId) ==
    LET cred == CredentialOf(s, tokenId) IN
    IF ~(~cred.isSoulbound \/ from = ZeroAddress)
        THEN "Soulbound token cannot be transferred"
    ELSE IF ExpiredAt(cred, s.now)
        THEN "Expired credential cannot be transferred"
    ELSE ""

\* The reason _beforeTokenTransfer reverts with, or "" when it passes.
_beforeTokenTransfer(s, from, to, tokenId) ==
    LET cred == CredentialOf(s, tokenId) IN
    IF paused THEN "Pausable: paused"
    ELSE IF ~(~cred.isSoulbound \/ from = ZeroAddress)
        THEN "Soulbound token cannot be transferred"
    ELSE IF tokenId \in s.revokedCredentials
        THEN "Revoked credential cannot be transferred"
    ELSE IF ExpiredAt(cred, s.now)
        THEN "Expired credential cannot be transferred"
    ELSE ""

\* _safeMint(to, tokenId), the recipient being an externally owned account.
_safeMint(s, to, tokenId) ==
    IF to = ZeroAddress THEN Revert(s, "ERC721: mint to the zero address")
    ELSE IF _exists(s, tokenId) THEN Revert(s, "ERC721: token already minted")
    ELSE LET hook == _beforeTokenTransfer(s, ZeroAddress, to, tokenId) IN
         IF hook # "" THEN Revert(s, hook)
         ELSE Return([s EXCEPT !.owners = (tokenId :> to) @@ @], tokenId)

\* ERC721._transfer, reached from transferFrom and both safeTransferFrom.
_transfer(s, from, to, tokenId) ==
    IF s.owners[tokenId] # from THEN Revert(s, "ERC721: transfer from incorrect owner")
    ELSE IF to = ZeroAddress THEN Revert(s, "ERC721: transfer to the zero address")
    ELSE LET hook == _beforeTokenTransfer(s, from, to, tokenId) IN
         IF hook # "" THEN Revert(s, hook)
         ELSE Return([s EXCEPT !.owners[tokenId] = to], tokenId)

\* ERC721._burn
_burn(s, tokenId) ==
    LET hook == _beforeTokenTransfer(s, s.owners[tokenId], ZeroAddress, tokenId) IN
    IF hook # "" THEN Revert(s, hook)
    ELSE Return([s EXCEPT !.owners = [t \in DOMAIN @ \ {tokenId} |-> @[t]]], tokenId)

\* ------------------------------------------------------------- the contract
\* keccak256(abi.encodePacked(courseHash, studentHash)): the packed encoding is
\* the concatenation of the two strings; keccak256 is taken as injective.
credentialHash(courseHash, studentHash) == courseHash \o studentHash

\* The body shared by mintCredential and _mintSingleCredential, from the
\* duplicate check on.
_mintSingleCredential(s, sender, in) ==
    LET key == credentialHash(in.courseHash, in.studentHash) IN
    IF key \in s.usedHashes THEN Revert(s, "Credential already exists")
    ELSE
      LET tokenId == s.tokenIdCounter + 1
          cred == [courseHash |-> in.courseHash, studentHash |-> in.studentHash,
                   evaluationHash |-> in.evaluationHash,
                   ipfsMetadata |-> in.ipfsMetadata, credentialType |-> in.credentialType,
                   isRevocable |-> ~in.isSoulbound, isSoulbound |-> in.isSoulbound,
                   issuer |-> sender, validUntil |-> in.validUntil,
                   zkProof |-> in.zkProof, isVerified |-> FALSE]
          s1 == [s EXCEPT !.tokenIdCounter = tokenId,
                          !.credentials = (tokenId :> cred) @@ @,
                          !.usedHashes = @ \cup {key},
                          !.issuerCredentials[sender] = Append(@, tokenId)]
          m == _safeMint(s1, in.to, tokenId)
      IN IF m.ok THEN Return(m.st, tokenId) ELSE Revert(s, m.err)

\* mintCredential without its onlyRole(ISSUER_ROLE) modifier.
mintCredential_NoRoleCheck(s, sender, in) ==
    IF paused THEN Revert(s, "Pausable: paused")
    ELSE IF in.to = ZeroAddress THEN Revert(s, "Cannot mint to zero address")
    ELSE IF Len(in.courseHash) = 0 THEN Revert(s, "Course hash cannot be empty")
    ELSE IF Len(in.studentHash) = 0 THEN Revert(s, "Student hash cannot be empty")
    ELSE IF Len(in.ipfsMetadata) = 0 THEN Revert(s, "IPFS metadata cannot be empty")
    ELSE IF ~(in.credentialType >= 1 /\ in.credentialType <= 4)
        THEN Revert(s, "Invalid credential type")
    ELSE IF ~(in.validUntil = 0 \/ in.validUntil > s.now)
        THEN Revert(s, "Invalid expiration date")
    ELSE _mintSingleCredential(s, sender, in)

mintCredential(s, sender, in) ==
    IF ~hasRole(s, ISSUER_ROLE, sender) THEN Revert(s, "AccessControl: missing role")
    ELSE IF paused THEN Revert(s, "Pausable: paused")
    ELSE IF in.to = ZeroAddress THEN Revert(s, "Cannot mint to zero address")
    ELSE IF Len(in.courseHash) = 0 THEN Revert(s, "Course hash cannot be empty")
    ELSE IF Len(in.studentHash) = 0 THEN Revert(s, "Student hash cannot be empty")
    ELSE IF Len(in.ipfsMetadata) = 0 THEN Revert(s, "IPFS metadata cannot be empty")
    ELSE IF ~(in.credentialType >= 1 /\ in.credentialType <= 4)
        THEN Revert(s, "Invalid credential type")
    ELSE IF ~(in.validUntil = 0 \/ in.validUntil > s.now)
        THEN Revert(s, "Invalid expiration date")
    ELSE _mintSingleCredential(s, sender, in)

\* Item i of a BatchMintRequest; an index past the end of one of its arrays
\* is a panic, which reverts.
RECURSIVE BatchLoop(_, _, _, _)
BatchLoop(s, sender, request, i) ==
    IF i > Len(request.recipients) THEN Return(s, 0)
    ELSE IF \E f \in {"studentHashes", "evaluationHashes", "ipfsMetadata",
                      "credentialTypes", "isSoulbound", "validUntils", "zkProofs"} :
                i > Len(request[f])
        THEN Revert(s, "Panic: array out-of-bounds access")
    ELSE LET r == _mintSingleCredential(s, sender,
                     [to |-> request.recipients[i],
                      courseHash |-> request.courseHashes[i],
                      studentHash |-> request.studentHashes[i],
                      evaluationHash |-> request.evaluationHashes[i],
                      ipfsMetadata |-> request.ipfsMetadata[i],
                      credentialType |-> request.credentialTypes[i],
                      isSoulbound |-> request.isSoulbound[i],
                      validUntil |-> request.validUntils[i],
                      zkProof |-> request.zkProofs[i]])
         IN IF r.ok THEN BatchLoop(r.st, sender, request, i + 1) ELSE r

\* batchMintCredentials without the bound on the batch size.
batchMintCredentials_NoSizeCheck(s, sender, request) ==
    IF ~hasRole(s, ISSUER_ROLE, sender) THEN Revert(s, "AccessControl: missing role")
    ELSE IF Len(request.recipients) # Len(request.courseHashes)
        THEN Revert(s, "Array length mismatch")
    ELSE LET r == BatchLoop(s, sender, request, 1) IN
         IF r.ok THEN r ELSE Revert(s, r.err)

batchMintCredentials(s, sender, request) ==
    IF ~hasRole(s, ISSUER_ROLE, sender) THEN Revert(s, "AccessControl: missing role")
    ELSE IF paused THEN Revert(s, "Pausable: paused")
    ELSE IF ~(Len(request.recipients) <= MaxBatchSize) THEN Revert(s, "Batch size too large")
    ELSE IF Len(request.recipients) # Len(request.courseHashes)
        THEN Revert(s, "Array length mismatch")
    ELSE LET r == BatchLoop(s, sender, request, 1) IN
         IF r.ok THEN r ELSE Revert(s, r.err)

\* verifyCredential without the revocation check.
verifyCredential_NoRevoked(s, tokenId) ==
    IF ~_exists(s, tokenId) THEN <<FALSE, "Credential does not exist">>
    ELSE IF ExpiredAt(CredentialOf(s, tokenId), s.now) THEN <<FALSE, "Credential has expired">>
    ELSE <<TRUE, "Credential is valid">>

\* verifyCredential without the expiration check.
verifyCredential_NoExpiry(s, tokenId) ==
    IF ~_exists(s, tokenId) THEN <<FALSE, "Credential does not exist">>
    ELSE IF tokenId \in s.revokedCredentials THEN <<FALSE, "Credential has been revoked">>
    ELSE <<TRUE, "Credential is valid">>

\* verifyCredential(tokenId) -> (isValid, reason)
verifyCredential(s, tokenId) ==
    IF ~_exists(s, tokenId) THEN <<FALSE, "Credential does not exist">>
    ELSE IF tokenId \in s.revokedCredentials THEN <<FALSE, "Credential has been revoked">>
    ELSE IF ExpiredAt(CredentialOf(s, tokenId), s.now) THEN <<FALSE, "Credential has expired">>
    ELSE <<TRUE, "Credential is valid">>

isCredentialExpired(s, tokenId) ==
    IF ~_exists(s, tokenId) THEN TRUE
    ELSE ExpiredAt(CredentialOf(s, tokenId), s.now)

revokeCredential(s, sender, tokenId) ==
    IF ~hasRole(s, ISSUER_ROLE, sender) THEN Revert(s, "AccessControl: missing role")
    ELSE IF ~_exists(s, tokenId) THEN Revert(s, "Credential does not exist")
    ELSE IF ~CredentialOf(s, tokenId).isRevocable THEN Revert(s, "Credential is not revocable")
    ELSE IF ~(CredentialOf(s, tokenId).issuer = sender \/ hasRole(s, DEFAULT_ADMIN_ROLE, sender))
        THEN Revert(s, "Not authorized to revoke this credential")
    ELSE Return([s EXCEPT !.revokedCredentials = @ \cup {tokenId}], tokenId)

totalSupply(s) == s.tokenIdCounter

ownerOf(s, tokenId) ==
    IF _exists(s, tokenId) THEN Return(s, s.owners[tokenId])
    ELSE Revert(s, "ERC721: invalid token ID")

\* transferFrom and the two safeTransferFrom overrides have the same body.
transferFrom(s, sender, from, to, tokenId) ==
    IF CredentialOf(s, tokenId).isSoulbound
        THEN Revert(s, "Soulbound tokens cannot be transferred")
    ELSE IF ~_exists(s, tokenId) THEN Revert(s, "ERC721: invalid token ID")
    ELSE IF ~_isApprovedOrOwner(s, sender, tokenId)
        THEN Revert(s, "ERC721: caller is not token owner or approved")
    ELSE _transfer(s, from, to, tokenId)

\* The issuer's list with tokenId replaced by the last element, then popped.
RemoveFromList(list, tokenId) ==
    IF \E i \in 1..Len(list) : list[i] = tokenId
    THEN LET i == CHOOSE k \in 1..Len(list) :
                      list[k] = tokenId /\ \A j \in 1..(k - 1) : list[j] # tokenId
             swapped == [list EXCEPT ![i] = list[Len(list)]]
         IN SubSeq(swapped, 1, Len(list) - 1)
    ELSE list

_removeFromIssuerList(s, issuer, tokenId) ==
    IF issuer \in DOMAIN s.issuerCredentials
    THEN [s EXCEPT !.issuerCredentials[issuer] = RemoveFromList(@, tokenId)]
    ELSE s

\* burn without the require on _isApprovedOrOwner.
burn_NoApprovalCheck(s, sender, tokenId) ==
    IF ~_exists(s, tokenId) THEN Revert(s, "ERC721: invalid token ID")
    ELSE LET cred == CredentialOf(s, tokenId) IN
         IF ~cred.isRevocable THEN Revert(s, "Soulbound tokens cannot be burned")
         ELSE LET b == _burn(s, tokenId) IN
              IF ~b.ok THEN Revert(s, b.err)
              ELSE LET s1 == [b.st EXCEPT
                                !.credentials = [t \in DOMAIN @ \ {tokenId} |-> @[t]],
                                !.revokedCredentials = @ \ {tokenId}]
                   IN Return(_removeFromIssuerList(s1, cred.issuer, tokenId), tokenId)

burn(s, sender, tokenId) ==
    IF ~_exists(s, tokenId) THEN Revert(s, "ERC721: invalid token ID")
    ELSE IF ~_isApprovedOrOwner(s, sender, tokenId)
        THEN Revert(s, "Caller is not owner nor approved")
    ELSE LET cred == CredentialOf(s, tokenId) IN
         IF ~cred.isRevocable THEN Revert(s, "Soulbound tokens cannot be burned")
         ELSE LET b == _burn(s, tokenId) IN
              IF ~b.ok THEN Revert(s, b.err)
              ELSE LET s1 == [b.st EXCEPT
                                !.credentials = [t \in DOMAIN @ \ {tokenId} |-> @[t]],
                                !.revokedCredentials = @ \ {tokenId}]
                   IN Return(_removeFromIssuerList(s1, cred.issuer, tokenId), tokenId)

setCredentialVerification(s, sender, tokenId, isValid) ==
    IF ~hasRole(s, VERIFIER_ROLE, sender) THEN Revert(s, "AccessControl: missing role")
    ELSE IF ~_exists(s, tokenId) THEN Revert(s, "Credential does not exist")
    ELSE Return([s EXCEPT !.credentials[tokenId].isVerified = isValid], tokenId)

setEmergencyPause(s, sender, flag) ==
    IF ~hasRole(s, DEFAULT_ADMIN_ROLE, sender) THEN Revert(s, "AccessControl: missing role")
    ELSE Return([s EXCEPT !.emergencyPaused = flag], 0)

isPaused(s) == s.emergencyPaused \/ paused

\* AccessControl.grantRole(role, account); the admin role of every role is
\* DEFAULT_ADMIN_ROLE.
grantRole(s, sender, role, account) ==
    IF ~hasRole(s, DEFAULT_ADMIN_ROLE, sender) THEN Revert(s, "AccessControl: missing role")
    ELSE Return([s EXCEPT !.roles[role] = @ \cup {account}], 0)

\* AccessControl.revokeRole(role, account)
revokeRole(s, sender, role, account) ==
    IF ~hasRole(s, DEFAULT_ADMIN_ROLE, sender) THEN Revert(s, "AccessControl: missing role")
    ELSE Return([s EXCEPT !.roles[role] = @ \ {account}], 0)

\* ERC721.setApprovalForAll(operator, approved)
setApprovalForAll(s, sender, operator, approved) ==
    IF sender = operator THEN Revert(s, "ERC721: approve to caller")
    ELSE Return([s EXCEPT !.operatorApprovals =
                    IF approved THEN @ \cup {<<sender, operator>>}
                    ELSE @ \ {<<sender, operator>>}], 0)

\* The two safeTransferFrom overrides repeat the body of transferFrom.
safeTransferFrom(s, sender, from, to, tokenId) ==
    IF CredentialOf(s, tokenId).isSoulbound
        THEN Revert(s, "Soulbound tokens cannot be transferred")
    ELSE IF ~_exists(s, tokenId) THEN Revert(s, "ERC721: invalid token ID")
    ELSE IF ~_isApprovedOrOwner(s, sender, tokenId)
        THEN Revert(s, "ERC721: caller is not token owner or approved")
    ELSE _transfer(s, from, to, tokenId)

safeTransferFromData(s, sender, from, to, tokenId) ==
    IF CredentialOf(s, tokenId).isSoulbound
        THEN Revert(s, "Soulbound tokens cannot be transferred")
    ELSE IF ~_exists(s, tokenId) THEN Revert(s, "ERC721: invalid token ID")
    ELSE IF ~_isApprovedOrOwner(s, sender, tokenId)
        THEN Revert(s, "ERC721: caller is not token owner or approved")
    ELSE _transfer(s, from, to, tokenId)

TransferFns == {"transferFrom", "safeTransferFrom", "safeTransferFromData"}

CallTransfer(fn, s, sender, from, to, tokenId) ==
    CASE fn = "transferFrom" -> transferFrom(s, sender, from, to, tokenId)
      [] fn = "safeTransferFrom" -> safeTransferFrom(s, sender, from, to, tokenId)
      [] fn = "safeTransferFromData" -> safeTransferFromData(s, sender, from, to, tokenId)

\* ------------------------------------------- BlockchainService (the adapter)
Null == "null"
Undefined == "undefined"

\* The functions named in contractABI.
ContractABI ==
    {"mintCredential", "getCredential", "verifyCredential", "ownerOf",
     "transferFrom", "totalSupply", "revokeCredential"}

\* The wallet of SERVICE_PRIVATE_KEY; it mints, so it holds ISSUER_ROLE.
Signer == Deployer

\* this.contract.<name>(tokenId) for a read: the Contract object has no method
\* for a name that contractABI does not declare, and calling it throws.
ContractRead(s, name, tokenId) ==
    IF name \notin ContractABI
        THEN [ok |-> FALSE, err |-> "no such method in the ABI", ret |-> Null]
    ELSE CASE name = "ownerOf" ->
                LET o == ownerOf(s, tokenId) IN
                [ok |-> o.ok, err |-> o.err, ret |-> IF o.ok THEN o.ret ELSE Null]
           [] name = "verifyCredential" ->
                [ok |-> TRUE, err |-> "", ret |-> verifyCredential(s, tokenId)[1]]
           [] OTHER -> [ok |-> FALSE, err |-> "execution reverted", ret |-> Null]

VerifyFailed(message) ==
    [isValid |-> FALSE, owner |-> Null, isVerified |-> FALSE, error |-> message]

\* BlockchainService.verifyCertificate(tokenId, expectedOwner)
verifyCertificate(s, tokenId, expectedOwner) ==
    LET owner == ContractRead(s, "ownerOf", tokenId)
        isVerified == ContractRead(s, "verifyCertificate", tokenId)
    IN IF ~owner.ok THEN VerifyFailed(owner.err)
       ELSE IF ~isVerified.ok THEN VerifyFailed(isVerified.err)
       ELSE IF expectedOwner = Undefined
           THEN VerifyFailed("TypeError: cannot read properties of undefined")
       ELSE [isValid |-> isVerified.ret /\ owner.ret = expectedOwner,
             owner |-> owner.ret, isVerified |-> isVerified.ret, error |-> ""]

\* BlockchainService.transferCertificate(from, to, tokenId): the transaction is
\* signed by the service wallet; a revert is rethrown.
transferCertificate(s, from, to, tokenId) ==
    IF "transferFrom" \notin ContractABI THEN Revert(s, "no such method in the ABI")
    ELSE LET r == transferFrom(s, Signer, from, to, tokenId) IN
         IF r.ok THEN Return(r.st, tokenId)
         ELSE Revert(s, "Failed to transfer certificate")

\* --------------------------------- Enrollment collection, certificate handlers
EnrollmentOrder == <<"e1", "e2">>
EnrollmentIds == {EnrollmentOrder[i] : i \in 1..Len(EnrollmentOrder)}

\* The populated user and course of an enrollment.
StudentName(e) == <<"name", e>>
StudentEmail(e) == <<"email", e>>
CourseTitle(e) == <<"title", e>>
WalletAddress(e) == IF e = "e1" THEN "alice" ELSE "bob"

\* event.args.tokenId.toString(), and the way back ethers takes for a uint256.
Digits == <<"0", "1", "2", "3", "4", "5", "6", "7", "8", "9">>
toString(n) == IF n \in 0..9 THEN Digits[n + 1] ELSE "many"
ParseUint(str) ==
    IF \E n \in 0..9 : Digits[n + 1] = str
    THEN CHOOSE n \in 0..9 : Digits[n + 1] = str
    ELSE 0

\* The paths enrollmentSchema declares under certificate.
CertificatePaths ==
    {"tokenId", "transactionHash", "ipfsHash", "mintedAt", "claimed", "claimedAt"}

\* What a save keeps of a certificate sub-document: the schema is strict, so a
\* path it does not declare is dropped; claimed defaults to false.
CastCertificate(sub) ==
    LET kept == [path \in DOMAIN sub \cap CertificatePaths |-> sub[path]] IN
    IF "claimed" \in DOMAIN kept THEN kept ELSE kept @@ [claimed |-> FALSE]

\* An enrollment no certificate was minted for.
FreshEnrollment == [status |-> "completed", passed |-> TRUE,
                    certificate |-> CastCertificate(<<>>)]

\* crypto.randomBytes(32).toString('hex') of the issuance for enrollment e.
GeneratedClaimToken(e) == <<"claimToken", e>>

\* mintCertificate, step 5: the certificate reference it assigns and saves.
LinkCertificate(doc, e, tokenId) ==
    [doc EXCEPT !.certificate =
        CastCertificate([tokenId |-> tokenId,
                         transactionHash |-> <<"tx", tokenId>>,
                         mintedAt |-> "date",
                         claimed |-> FALSE,
                         claimToken |-> GeneratedClaimToken(e)])]

\* The filter Mongoose sends for { 'certificate.<path>': value, ... }: with
\* strictQuery the paths the schema does not declare are removed from it.
CastFilter(filter, strict) ==
    IF strict THEN [path \in DOMAIN filter \cap CertificatePaths |-> filter[path]]
    ELSE filter

Matches(doc, filter) ==
    \A path \in DOMAIN filter :
        path \in DOMAIN doc.certificate /\ doc.certificate[path] = filter[path]

NoResponse == [handler |-> "none"]

\* Two requests the server handles at the same time, and one not yet received.
Requests == {"r1", "r2"}
IdleRequest ==
    [handler |-> "none", pc |-> "idle", enrollment |-> Null, token |-> <<>>,
     tokenId |-> Null, status |-> 0, message |-> ""]

\* claimCertificate: findOne by claim token among the unclaimed, mark the
\* enrollment found as claimed, save, answer with the credential summary.
ClaimCertificate(token) ==
    LET filter == CastFilter([claimToken |-> token, claimed |-> FALSE], strictQuery)
        found == {e \in EnrollmentIds : Matches(enrollments[e], filter)}
    IN /\ IF Len(token) = 0
             THEN /\ response' = [handler |-> "claimCertificate", token |-> token,
                                  status |-> 400,
                                  message |-> "Claim token is required"]
                  /\ UNCHANGED enrollments
          ELSE IF found = {}
             THEN /\ response' = [handler |-> "claimCertificate", token |-> token,
                                  status |-> 404,
                                  message |-> "Invalid or expired claim token"]
                  /\ UNCHANGED enrollments
          ELSE \E e \in found :
                  /\ enrollments' = [enrollments EXCEPT ![e].certificate =
                         CastCertificate([claimed |-> TRUE, claimedAt |-> "date"] @@ @)]
                  /\ response' =
                         [handler |-> "claimCertificate", token |-> token,
                          status |-> 200,
                          message |-> "Certificate claimed successfully",
                          enrollment |-> e,
                          certificate |->
                              [tokenId |->
                                   IF "tokenId" \in DOMAIN enrollments[e].certificate
                                   THEN enrollments[e].certificate.tokenId
                                   ELSE Undefined,
                               courseName |-> CourseTitle(e),
                               studentName |-> StudentName(e)]]
       /\ UNCHANGED <<now, ledgerVars, issued, everRevoked, strictQuery,
                       certificates, pinned, calls, inflight>>

\* Who calls GET /:tokenId/verify; the route has no authentication middleware
\* and the handler does not read req.user.
Callers == {"anonymous", "stranger", "recipient", "issuer", "admin"}

\* verifyCertificate of the controller.
VerifyCertificate(caller, tokenId, ownerAddress) ==
    LET verification == verifyCertificate(Ledger, ParseUint(tokenId), ownerAddress)
        found == {e \in EnrollmentIds :
                    /\ "tokenId" \in DOMAIN enrollments[e].certificate
                    /\ enrollments[e].certificate.tokenId = tokenId}
    IN /\ \/ /\ found = {}
             /\ response' =
                   [handler |-> "verifyCertificate", caller |-> caller,
                    tokenId |-> tokenId, status |-> 200,
                    isValid |-> verification.isValid, owner |-> verification.owner,
                    isVerified |-> verification.isVerified,
                    databaseVerified |-> FALSE, metadata |-> <<>>]
          \/ \E e \in found :
                response' =
                   [handler |-> "verifyCertificate", caller |-> caller,
                    tokenId |-> tokenId, status |-> 200,
                    isValid |-> verification.isValid, owner |-> verification.owner,
                    isVerified |-> verification.isVerified,
                    databaseVerified |-> TRUE,
                    metadata |-> [courseName |-> CourseTitle(e),
                                  studentName |-> StudentName(e),
                                  studentEmail |-> StudentEmail(e),
                                  score |-> <<"score", e>>,
                                  mintedAt |-> enrollments[e].certificate.mintedAt]]
       /\ UNCHANGED <<now, ledgerVars, issued, everRevoked, enrollments, strictQuery,
                       certificates, pinned, calls, inflight>>

\* ------------------------------------------------------------------ inputs
\* (courseHash, studentHash) pairs; the last two have the same packed encoding.
Pairs == {<<Str(1), Str(1)>>, <<Str(1), Str(2)>>, <<Str(2), Str(1)>>}
ValidUntils == {0, MaxTime - 1}
TokenIds == 1..MaxTokens

MintInput(to, c, st, ipfs, type, sb, vu) ==
    [to |-> to, courseHash |-> c, studentHash |-> st, evaluationHash |-> Str(1),
     ipfsMetadata |-> ipfs, credentialType |-> type, isSoulbound |-> sb,
     validUntil |-> vu, zkProof |-> Str(1)]

\* Inputs that pass the require checks when validUntil is 0 or in the future.
WellFormedInputs ==
    {MintInput("alice", p[1], p[2], Str(1), 1, sb, vu) :
        p \in Pairs, sb \in BOOLEAN, vu \in ValidUntils}

\* One input per require check of mintCredential that it fails.
MalformedInputs ==
    {MintInput(ZeroAddress, Str(1), Str(1), Str(1), 1, FALSE, 0),
     MintInput("alice", Str(0), Str(1), Str(1), 1, FALSE, 0),
     MintInput("alice", Str(1), Str(0), Str(1), 1, FALSE, 0),
     MintInput("alice", Str(1), Str(1), Str(0), 1, FALSE, 0),
     MintInput("alice", Str(1), Str(1), Str(1), 0, FALSE, 0),
     MintInput("alice", Str(1), Str(1), Str(1), 5, FALSE, 0),
     MintInput("alice", Str(1), Str(1), Str(1), 1, FALSE, 1)}

MintInputs == WellFormedInputs \cup MalformedInputs

\* The items batches are made of.
BatchItems ==
    {MintInput("alice", Str(1), Str(1), Str(1), 1, FALSE, 0),
     MintInput("alice", Str(2), Str(1), Str(1), 1, TRUE, 0),
     MintInput("bob", Str(1), Str(2), Str(1), 1, FALSE, MaxTime - 1)}

\* The BatchMintRequest whose arrays hold the fields of items.
Request(items) ==
    [recipients |-> [i \in 1..Len(items) |-> items[i].to],
     courseHashes |-> [i \in 1..Len(items) |-> items[i].courseHash],
     studentHashes |-> [i \in 1..Len(items) |-> items[i].studentHash],
     evaluationHashes |-> [i \in 1..Len(items) |-> items[i].evaluationHash],
     ipfsMetadata |-> [i \in 1..Len(items) |-> items[i].ipfsMetadata],
     credentialTypes |-> [i \in 1..Len(items) |-> items[i].credentialType],
     isSoulbound |-> [i \in 1..Len(items) |-> items[i].isSoulbound],
     validUntils |-> [i \in 1..Len(items) |-> items[i].validUntil],
     zkProofs |-> [i \in 1..Len(items) |-> items[i].zkProof]]

\* MaxBatchSize + 1 items with pairwise different (courseHash, studentHash).
OversizeRequest ==
    Request([i \in 1..(MaxBatchSize + 1) |->
                MintInput("alice", Str(3), Str(i), Str(1), 1, FALSE, 0)])

BatchRequests ==
    {Request(items) : items \in UNION {[1..n -> BatchItems] : n \in 0..MaxBatchLen}}
    \cup {OversizeRequest}
    \cup {[Request(<<x>>) EXCEPT !.courseHashes = <<>>] : x \in BatchItems}
    \cup {[Request(<<x>>) EXCEPT !.zkProofs = <<>>] : x \in BatchItems}

\* ----------------------------------------------------------------- actions
\* A call that is mined without reverting: the storage after it, and the
\* history of the tokens it minted and revoked. A call that reverts leaves
\* every variable as it was, which is a stuttering step.
Commit(r) ==
    /\ tokenIdCounter' = r.st.tokenIdCounter
    /\ credentials' = r.st.credentials
    /\ usedHashes' = r.st.usedHashes
    /\ revokedCredentials' = r.st.revokedCredentials
    /\ issuerCredentials' = r.st.issuerCredentials
    /\ owners' = r.st.owners
    /\ operatorApprovals' = r.st.operatorApprovals
    /\ emergencyPaused' = r.st.emergencyPaused
    /\ roles' = r.st.roles
    /\ issued' = [t \in DOMAIN issued \cup (DOMAIN r.st.owners \ DOMAIN owners) |->
                    IF t \in DOMAIN issued THEN issued[t]
                    ELSE [to |-> r.st.owners[t],
                          courseHash |-> r.st.credentials[t].courseHash,
                          studentHash |-> r.st.credentials[t].studentHash,
                          isSoulbound |-> r.st.credentials[t].isSoulbound]]
    /\ everRevoked' = everRevoked \cup (r.st.revokedCredentials \ revokedCredentials)
    /\ UNCHANGED <<now, backendVars>>

MintCredential(sender, in) ==
    LET r == mintCredential(Ledger, sender, in) IN
    /\ r.ok
    /\ r.st.tokenIdCounter <= MaxTokens
    /\ Commit(r)

BatchMintCredentials(sender, request) ==
    LET r == batchMintCredentials(Ledger, sender, request) IN
    /\ r.ok
    /\ Len(request.recipients) <= MaxBatchSize => r.st.tokenIdCounter <= MaxTokens
    /\ Commit(r)

Transfer(fn, sender, from, to, tokenId) ==
    LET r == CallTransfer(fn, Ledger, sender, from, to, tokenId) IN
    /\ r.ok
    /\ Commit(r)

\* The backend moves a token with the service wallet.
TransferCertificate(from, to, tokenId) ==
    LET r == transferCertificate(Ledger, from, to, tokenId) IN
    /\ r.ok
    /\ Commit(r)

RevokeCredential(sender, tokenId) ==
    LET r == revokeCredential(Ledger, sender, tokenId) IN
    /\ r.ok
    /\ Commit(r)

Burn(sender, tokenId) ==
    LET r == burn(Ledger, sender, tokenId) IN
    /\ r.ok
    /\ Commit(r)

SetCredentialVerification(sender, tokenId, isValid) ==
    LET r == setCredentialVerification(Ledger, sender, tokenId, isValid) IN
    /\ r.ok
    /\ Commit(r)

SetEmergencyPause(sender, flag) ==
    LET r == setEmergencyPause(Ledger, sender, flag) IN
    /\ r.ok
    /\ Commit(r)

SetApprovalForAll(sender, operator, approved) ==
    LET r == setApprovalForAll(Ledger, sender, operator, approved) IN
    /\ r.ok
    /\ Commit(r)

\* A later block: block.timestamp grows.
Tick ==
    /\ now < MaxTime
    /\ now' = now + 1
    /\ UNCHANGED <<ledgerVars, issued, everRevoked, backendVars>>

\* The history of the tokens of a ledger that has only seen mints.
IssuedOf(s) ==
    [t \in DOMAIN s.owners |->
        [to |-> s.owners[t],
         courseHash |-> s.credentials[t].courseHash,
         studentHash |-> s.credentials[t].studentHash,
         isSoulbound |-> s.credentials[t].isSoulbound]]

\* The ledger variables hold the storage s.
LedgerIs(s) ==
    /\ now = s.now
    /\ tokenIdCounter = s.tokenIdCounter
    /\ credentials = s.credentials
    /\ usedHashes = s.usedHashes
    /\ revokedCredentials = s.revokedCredentials
    /\ issuerCredentials = s.issuerCredentials
    /\ owners = s.owners
    /\ operatorApprovals = s.operatorApprovals
    /\ emergencyPaused = s.emergencyPaused
    /\ roles = s.roles
    /\ issued = IssuedOf(s)
    /\ everRevoked = {}

\* The storage after initialize() at the first block.
InitialLedger ==
    [now |-> 1,
     tokenIdCounter |-> 0,
     credentials |-> <<>>,
     usedHashes |-> {},
     revokedCredentials |-> {},
     issuerCredentials |-> [a \in Accounts |-> <<>>],
     owners |-> <<>>,
     operatorApprovals |-> {},
     emergencyPaused |-> FALSE,
     roles |-> [r \in Roles |-> {Deployer}]]

Init ==
    /\ LedgerIs(InitialLedger)
    /\ enrollments = [e \in EnrollmentIds |-> FreshEnrollment]
    /\ strictQuery = FALSE
    /\ certificates = <<>>
    /\ pinned = {}
    /\ calls = {}
    /\ response = NoResponse
    /\ inflight = [r \in Requests |-> IdleRequest]

Next ==
    \/ \E sender \in Accounts, in \in MintInputs : MintCredential(sender, in)
    \/ \E sender \in Accounts, request \in BatchRequests :
            BatchMintCredentials(sender, request)
    \/ \E fn \in TransferFns, sender \in Accounts, from \in Holders,
          to \in Holders \cup {ZeroAddress}, tokenId \in TokenIds :
            Transfer(fn, sender, from, to, tokenId)
    \/ \E from \in Holders, to \in Holders, tokenId \in TokenIds :
            TransferCertificate(from, to, tokenId)
    \/ \E sender \in Accounts, tokenId \in TokenIds : RevokeCredential(sender, tokenId)
    \/ \E sender \in Accounts, tokenId \in TokenIds : Burn(sender, tokenId)
    \/ \E sender \in Accounts, tokenId \in TokenIds, isValid \in BOOLEAN :
            SetCredentialVerification(sender, tokenId, isValid)
    \/ \E sender \in Accounts, flag \in BOOLEAN : SetEmergencyPause(sender, flag)
    \/ \E approved \in BOOLEAN : SetApprovalForAll("alice", Deployer, approved)
    \/ Tick

Spec == Init /\ [][Next]_vars

\* ------------------------------------------------ the certificate endpoints
\* The credential the backend mints for an enrollment: hashes of the course id
\* and of the user id, transferable, permanent.
generateHash(index) == Str(index)

EnrollmentMintInput(e) ==
    MintInput(WalletAddress(e), generateHash(1),
              generateHash(CHOOSE i \in 1..Len(EnrollmentOrder) : EnrollmentOrder[i] = e),
              Str(1), 1, FALSE, 0)

\* The ledger and the collection once the enrollments of linked, taken in
\* order from position i, have a token and the reference to it.
RECURSIVE IssueAll(_, _, _, _)
IssueAll(s, docs, linked, i) ==
    IF i > Len(EnrollmentOrder) THEN [st |-> s, docs |-> docs]
    ELSE LET e == EnrollmentOrder[i]
             r == mintCredential(s, Signer, EnrollmentMintInput(e))
         IN IF e \in linked /\ r.ok
            THEN IssueAll(r.st,
                          [docs EXCEPT ![e] = LinkCertificate(@, e, toString(r.ret))],
                          linked, i + 1)
            ELSE IssueAll(s, docs, linked, i + 1)

\* Tokens and claim tokens a request can name.
RequestTokenIds == {toString(n) : n \in 1..(Len(EnrollmentOrder) + 1)}
RequestClaimTokens ==
    {GeneratedClaimToken(e) : e \in EnrollmentIds} \cup {<<"claimToken", "forged">>, <<>>}
OwnerAddresses == Holders \cup {Undefined}

\* The user an enrollment belongs to; u3 is an administrator with no enrollment.
UserOf(e) == IF e = "e1" THEN "u1" ELSE "u2"
UserIds == {"u1", "u2", "u3"}
RoleOf(userId) == IF userId = "u3" THEN "admin" ELSE "student"

\* JavaScript values: ethers 6 hands every uint of a result over as a bigint.
JsNumber(n) == <<"number", n>>
JsBigInt(n) == <<"bigint", n>>

\* a * b in JavaScript: a bigint times a number throws a TypeError.
JsMul(a, b) ==
    IF a[1] = b[1] THEN [ok |-> TRUE, value |-> <<a[1], a[2] * b[2]>>]
    ELSE [ok |-> FALSE, value |-> Null]

\* generateZKProof: the first 32 hex characters of a sha256 digest, no 0x.
generateZKProof == [prefix0x |-> FALSE, hexChars |-> 32]

\* What ethers encodes as a bytes32 argument: 0x and 64 hex characters.
IsBytes32(value) == value.prefix0x /\ value.hexChars = 64

\* The event mintCredential emits, and the event name the adapter looks for.
EmittedByMint == "CredentialMinted"
SearchedInReceipt == "CertificateMinted"

\* The logs of a confirmed mintCredential: ERC721's Transfer and the
\* contract's CredentialMinted, each with the signature its topic is made of.
LogsOfMint(tokenId) ==
    {[name |-> "Transfer", signature |-> "Transfer(address,address,uint256)",
      tokenId |-> tokenId],
     [name |-> EmittedByMint,
      signature |-> "CredentialMinted(uint256,address,string,uint256,uint8)",
      tokenId |-> tokenId]}

\* The events contractABI declares.
AbiEventSignatures == {"CredentialMinted(uint256,address,string,uint8)"}

\* The token id read from the receipt of a confirmed mint: the first log the
\* interface parses to an event named as searched; without one, a throw.
tokenIdFromReceipt(logs) ==
    LET matching == {log \in logs : /\ log.signature \in AbiEventSignatures
                                    /\ log.name = SearchedInReceipt}
    IN IF matching = {}
       THEN [ok |-> FALSE, ret |-> Null,
             err |-> "Failed to mint certificate: CertificateMinted event not found"]
       ELSE [ok |-> TRUE, err |-> "",
             ret |-> toString((CHOOSE log \in matching : TRUE).tokenId)]

\* BlockchainService.mintCertificate, from the contract call on: encode the
\* arguments, estimate the gas, add 20%, send, wait, read the token id from
\* the receipt. err = "" means it returned; st is the ledger it leaves.
mintCertificate(s, in) ==
    IF ~IsBytes32(generateZKProof)
        THEN Revert(s, "Failed to mint certificate: invalid BytesLike value")
    ELSE LET tx == mintCredential(s, Signer, in) IN
         IF ~tx.ok THEN Revert(s, "Failed to mint certificate: execution reverted")
         ELSE IF ~JsMul(JsBigInt(1), JsNumber(1)).ok
             THEN Revert(s, "Failed to mint certificate: cannot mix BigInt and other types")
         ELSE IF EmittedByMint # SearchedInReceipt
             THEN [ok |-> FALSE, st |-> tx.st, ret |-> 0,
                   err |-> "Failed to mint certificate: CertificateMinted event not found"]
         ELSE Return(tx.st, toString(tx.ret))

\* new Certificate({...}) of mintCertificate, step 4.
CertificateRecord(e, issuerId, tokenId) ==
    [tokenId |-> tokenId,
     studentName |-> StudentName(e), studentEmail |-> StudentEmail(e),
     courseName |-> CourseTitle(e),
     aiScore |-> <<"score", e>>, aiEvaluation |-> <<"feedback", e>>,
     issuerId |-> issuerId, recipientId |-> UserOf(e),
     recipientAddress |-> WalletAddress(e),
     status |-> "minted", isRevoked |-> FALSE, revokedReason |-> Undefined]

\* certificateSchema.methods.revoke
revoke(record, reason) ==
    [record EXCEPT !.isRevoked = TRUE, !.revokedReason = reason, !.status = "revoked"]

\* certificateSchema.methods.transfer
transfer(record, newRecipientId, newRecipientAddress) ==
    [record EXCEPT !.recipientId = newRecipientId,
                   !.recipientAddress = newRecipientAddress,
                   !.status = "transferred"]

\* The eligibility checks without the one for an existing certificate.
Eligibility_NoMintedCheck(docs, userId, enrollmentId) ==
    IF enrollmentId \notin DOMAIN docs
        THEN [status |-> 404, message |-> "Enrollment not found"]
    ELSE IF UserOf(enrollmentId) # userId
        THEN [status |-> 403, message |-> "Access denied"]
    ELSE IF docs[enrollmentId].status # "completed" \/ ~docs[enrollmentId].passed
        THEN [status |-> 400, message |-> "Course not completed or evaluation not passed"]
    ELSE [status |-> 0, message |-> "eligible"]

\* mintCertificate of the controller up to the eligibility checks: the status
\* it answers with, or 0 when the enrollment goes on to be minted.
Eligibility(docs, userId, enrollmentId) ==
    IF enrollmentId \notin DOMAIN docs
        THEN [status |-> 404, message |-> "Enrollment not found"]
    ELSE IF UserOf(enrollmentId) # userId
        THEN [status |-> 403, message |-> "Access denied"]
    ELSE IF docs[enrollmentId].status # "completed" \/ ~docs[enrollmentId].passed
        THEN [status |-> 400, message |-> "Course not completed or evaluation not passed"]
    ELSE IF "tokenId" \in DOMAIN docs[enrollmentId].certificate
        THEN [status |-> 400, message |-> "Certificate already minted"]
    ELSE [status |-> 0, message |-> "eligible"]

\* The saga without the abort on a failed upload: the ledger adapter is
\* called whatever uploadMetadata did.
IssueCertificate_NoUploadAbort(s, docs, certs, pins, userId, e, ipfsUp, emailUp) ==
    LET mint == mintCertificate(s, EnrollmentMintInput(e)) IN
    IF ~mint.ok
       THEN [status |-> 500, message |-> mint.err,
             calls |-> {"ipfs", "ledger"}, st |-> mint.st,
             docs |-> docs, certs |-> certs, pins |-> pins]
    ELSE [status |-> 500, message |-> "claimToken is not defined",
          calls |-> {"ipfs", "ledger", "certificates", "enrollments"},
          st |-> mint.st,
          docs |-> [docs EXCEPT ![e] = LinkCertificate(@, e, mint.ret)],
          certs |-> (mint.ret :> CertificateRecord(e, userId, mint.ret)) @@ certs,
          pins |-> pins]

\* The saga without the abort on a failed mint: the record and the linkage
\* are saved with whatever token id the adapter left.
IssueCertificate_SaveWithoutMint(s, docs, certs, pins, userId, e, ipfsUp, emailUp) ==
    IF ~ipfsUp
        THEN [status |-> 500, message |-> "Failed to mint certificate",
              calls |-> {"ipfs"}, st |-> s, docs |-> docs, certs |-> certs, pins |-> pins]
    ELSE LET mint == mintCertificate(s, EnrollmentMintInput(e))
             tokenId == IF mint.ok THEN mint.ret ELSE Undefined
         IN [status |-> 500, message |-> "claimToken is not defined",
             calls |-> {"ipfs", "ledger", "certificates", "enrollments"},
             st |-> mint.st,
             docs |-> [docs EXCEPT ![e] = LinkCertificate(@, e, tokenId)],
             certs |-> (tokenId :> CertificateRecord(e, userId, tokenId)) @@ certs,
             pins |-> pins \cup {e}]

\* mintCertificate of the controller after the eligibility checks: upload the
\* metadata, mint, save the Certificate, link the enrollment, send the claim
\* email, answer. The email block names certificateData and the answer names
\* claimToken, neither of which is declared: the first ReferenceError is caught
\* by the email block's own catch before sendNFTClaimEmail is called, the
\* second goes to the handler's catch.
IssueCertificate(s, docs, certs, pins, userId, e, ipfsUp, emailUp) ==
    IF ~ipfsUp
        THEN [status |-> 500, message |-> "Failed to mint certificate",
              calls |-> {"ipfs"}, st |-> s, docs |-> docs, certs |-> certs, pins |-> pins]
    ELSE LET mint == mintCertificate(s, EnrollmentMintInput(e)) IN
         IF ~mint.ok
            THEN [status |-> 500, message |-> mint.err,
                  calls |-> {"ipfs", "ledger"}, st |-> mint.st,
                  docs |-> docs, certs |-> certs, pins |-> pins \cup {e}]
         ELSE [status |-> 500, message |-> "claimToken is not defined",
               calls |-> {"ipfs", "ledger", "certificates", "enrollments"},
               st |-> mint.st,
               docs |-> [docs EXCEPT ![e] = LinkCertificate(@, e, mint.ret)],
               certs |-> (mint.ret :> CertificateRecord(e, userId, mint.ret)) @@ certs,
               pins |-> pins \cup {e}]

\* POST /certificates/mint by an authenticated user.
MintCertificate(userId, enrollmentId, ipfsUp, emailUp) ==
    LET check == Eligibility(enrollments, userId, enrollmentId)
        out == IF check.status # 0
               THEN [status |-> check.status, message |-> check.message,
                     calls |-> {}, st |-> Ledger, docs |-> enrollments,
                     certs |-> certificates, pins |-> pinned]
               ELSE IssueCertificate(Ledger, enrollments, certificates, pinned,
                                     userId, enrollmentId, ipfsUp, emailUp)
    IN /\ response' = [handler |-> "mintCertificate", user |-> userId,
                       enrollment |-> enrollmentId,
                       status |-> out.status, message |-> out.message]
       /\ calls' = out.calls
       /\ enrollments' = out.docs
       /\ certificates' = out.certs
       /\ pinned' = out.pins
       /\ tokenIdCounter' = out.st.tokenIdCounter
       /\ credentials' = out.st.credentials
       /\ usedHashes' = out.st.usedHashes
       /\ issuerCredentials' = out.st.issuerCredentials
       /\ owners' = out.st.owners
       /\ issued' = IssuedOf(out.st)
       /\ UNCHANGED <<now, revokedCredentials, operatorApprovals, emergencyPaused,
                      roles, everRevoked, strictQuery, inflight>>

\* getCredential(tokenId) of the contract: eleven values, not the struct.
ReturnedByGetCredential ==
    <<"courseHash", "studentHash", "completionDate", "evaluationHash",
      "ipfsMetadata", "credentialType", "isRevocable", "isSoulbound", "issuer",
      "validUntil", "zkProof">>

getCredential(s, tokenId) ==
    IF ~_exists(s, tokenId) THEN Revert(s, "Credential does not exist")
    ELSE Return(s, CredentialOf(s, tokenId))

\* What contractABI declares getCredential to return: one tuple of twelve.
DeclaredForGetCredential ==
    << <<"courseHash", "studentHash", "completionDate", "evaluationHash",
         "ipfsMetadata", "credentialType", "isRevocable", "isSoulbound", "issuer",
         "validUntil", "zkProof", "isVerified">> >>

\* The fields of the adapter's result, and those of the pinned metadata.
HashLevelFields ==
    {"tokenId", "courseHash", "studentHash", "completionDate", "evaluationHash",
     "ipfsMetadata", "credentialType", "isRevocable", "isSoulbound", "issuer",
     "validUntil", "zkProof", "isVerified", "isValid"}
SensitiveFields ==
    {"studentName", "studentEmail", "courseName", "aiScore", "aiEvaluation",
     "issuerName"}

\* BlockchainService.getCertificate(tokenId): read the credential, convert
\* its dates (uints of the result, bigints, times 1000), fetch the metadata
\* its CID names. A throw is rethrown.
getCertificate(s, docs, pins, tokenId) ==
    LET call == getCredential(s, ParseUint(tokenId))
        fetched == \E e \in pins : /\ "tokenId" \in DOMAIN docs[e].certificate
                                   /\ docs[e].certificate.tokenId = tokenId
    IN IF "getCredential" \notin ContractABI
           THEN [ok |-> FALSE, err |-> "no such method in the ABI", fields |-> {}]
       ELSE IF ~call.ok
           THEN [ok |-> FALSE, err |-> "Failed to get credential: " \o call.err,
                 fields |-> {}]
       ELSE IF ReturnedByGetCredential # DeclaredForGetCredential
           THEN [ok |-> FALSE,
                 err |-> "Failed to get credential: could not decode result data",
                 fields |-> {}]
       ELSE IF ~JsMul(JsBigInt(call.ret.validUntil), JsNumber(1000)).ok
           THEN [ok |-> FALSE,
                 err |-> "Failed to get credential: cannot mix BigInt and other types",
                 fields |-> {}]
       ELSE [ok |-> TRUE, err |-> "",
             fields |-> HashLevelFields \cup (IF fetched THEN {"metadata"} ELSE {})]

\* GET /certificates/:tokenId; userId is Undefined without a valid login.
GetCertificate(userId, tokenId) ==
    LET blockchainData == getCertificate(Ledger, enrollments, pinned, tokenId)
        answer(status, message, fields) ==
            [handler |-> "getCertificate", user |-> userId, tokenId |-> tokenId,
             status |-> status, message |-> message, fields |-> fields]
    IN /\ response' =
            IF ~blockchainData.ok
                THEN answer(500, "Certificate retrieval failed", {})
            ELSE IF tokenId \notin DOMAIN certificates
                THEN answer(404, "Certificate data not found", {})
            ELSE LET certificate == certificates[tokenId]
                     isOwner == certificate.recipientId = userId
                     isIssuer == certificate.issuerId = userId
                     isAdmin == userId # Undefined /\ RoleOf(userId) = "admin"
                 IN IF isOwner \/ isIssuer \/ isAdmin
                    THEN answer(200, "", blockchainData.fields \cup SensitiveFields)
                    ELSE answer(200, "Sensitive personal information can only be viewed by the certificate owner.",
                                blockchainData.fields)
       /\ UNCHANGED <<now, ledgerVars, issued, everRevoked, enrollments, strictQuery,
                       certificates, pinned, calls, inflight>>

\* The enrollments a request can name; e0 is not in the collection.
RequestEnrollmentIds == EnrollmentIds \cup {"e0"}

\* What an enrollment is when the service starts: minted and linked, ready to
\* be minted, still in progress, or completed without passing.
Profiles == {"linked", "eligible", "in-progress", "failed"}

ProfileDocument(profile) ==
    CASE profile = "in-progress" ->
            [FreshEnrollment EXCEPT !.status = "in-progress", !.passed = FALSE]
      [] profile = "failed" -> [FreshEnrollment EXCEPT !.passed = FALSE]
      [] OTHER -> FreshEnrollment

\* The Certificate records saved with the links of docs.
CertificatesOf(docs) ==
    LET linked == {e \in DOMAIN docs : "tokenId" \in DOMAIN docs[e].certificate}
        tokenOf(e) == docs[e].certificate.tokenId
    IN [tokenId \in {tokenOf(e) : e \in linked} |->
            LET e == CHOOSE x \in linked : tokenOf(x) = tokenId
            IN CertificateRecord(e, UserOf(e), tokenId)]

InitBackend ==
    /\ \E profile \in [EnrollmentIds -> Profiles] :
        LET after == IssueAll(InitialLedger,
                              [e \in EnrollmentIds |-> ProfileDocument(profile[e])],
                              {e \in EnrollmentIds : profile[e] = "linked"}, 1)
        IN /\ LedgerIs(after.st)
           /\ enrollments = after.docs
           /\ certificates = CertificatesOf(after.docs)
           /\ pinned = {e \in EnrollmentIds : profile[e] = "linked"}
    /\ strictQuery \in BOOLEAN
    /\ calls = {}
    /\ response = NoResponse
    /\ inflight = [r \in Requests |-> IdleRequest]

NextBackend ==
    \/ \E token \in RequestClaimTokens : ClaimCertificate(token)
    \/ \E caller \in Callers, tokenId \in RequestTokenIds, ownerAddress \in OwnerAddresses :
            VerifyCertificate(caller, tokenId, ownerAddress)
    \/ \E userId \in UserIds, enrollmentId \in RequestEnrollmentIds,
          ipfsUp \in BOOLEAN, emailUp \in BOOLEAN :
            MintCertificate(userId, enrollmentId, ipfsUp, emailUp)
    \/ \E userId \in UserIds \cup {Undefined}, tokenId \in RequestTokenIds :
            GetCertificate(userId, tokenId)

SpecBackend == InitBackend /\ [][NextBackend]_vars

\* ------------------------------------------------------ concurrent requests
\* Node runs a handler up to its next await and then may run another request.
\* A request is at pc, the await it will resume from.
Answered(req, status, message) ==
    [req EXCEPT !.pc = "done", !.status = status, !.message = message]

\* mintCertificate up to the first await after findById: the enrollment is
\* loaded and the eligibility checks run on the loaded document.
MintBegin(r, e) ==
    LET check == Eligibility(enrollments, UserOf(e), e)
        req == [IdleRequest EXCEPT !.handler = "mintCertificate", !.enrollment = e]
    IN /\ inflight[r].pc = "idle"
       /\ inflight' = [inflight EXCEPT ![r] =
                          IF check.status # 0
                          THEN Answered(req, check.status, check.message)
                          ELSE [req EXCEPT !.pc = "uploadMetadata"]]
       /\ UNCHANGED <<now, ledgerVars, issued, everRevoked, enrollments, strictQuery,
                       certificates, pinned, calls, response>>

\* What mintCertificate does between the await req is at and the next one.
MintStep(s, docs, certs, pins, req, ipfsUp) ==
    LET e == req.enrollment
        same == [req |-> req, st |-> s, docs |-> docs, certs |-> certs, pins |-> pins]
    IN CASE req.pc = "uploadMetadata" ->
                IF ipfsUp
                THEN [same EXCEPT !.req.pc = "mintCertificate", !.pins = @ \cup {e}]
                ELSE [same EXCEPT !.req = Answered(req, 500, "Failed to mint certificate")]
         [] req.pc = "mintCertificate" ->
                LET mint == mintCertificate(s, EnrollmentMintInput(e)) IN
                IF mint.ok
                THEN [same EXCEPT !.req.pc = "certificate.save",
                                  !.req.tokenId = mint.ret, !.st = mint.st]
                ELSE [same EXCEPT !.req = Answered(req, 500, mint.err), !.st = mint.st]
         [] req.pc = "certificate.save" ->
                IF req.tokenId \in DOMAIN certs
                THEN [same EXCEPT !.req = Answered(req, 500, "E11000 duplicate key error")]
                ELSE [same EXCEPT
                        !.req.pc = "enrollment.save",
                        !.certs = (req.tokenId :>
                                     CertificateRecord(e, UserOf(e), req.tokenId)) @@ @]
         [] req.pc = "enrollment.save" ->
                [same EXCEPT !.req = Answered(req, 500, "claimToken is not defined"),
                             !.docs[e] = LinkCertificate(@, e, req.tokenId)]
         [] OTHER -> same

\* A mintCertificate request resumes from its await.
MintContinue(r, ipfsUp) ==
    LET out == MintStep(Ledger, enrollments, certificates, pinned, inflight[r], ipfsUp)
    IN /\ inflight[r].handler = "mintCertificate"
       /\ inflight[r].pc # "done"
       /\ inflight' = [inflight EXCEPT ![r] = out.req]
       /\ enrollments' = out.docs
       /\ certificates' = out.certs
       /\ pinned' = out.pins
       /\ tokenIdCounter' = out.st.tokenIdCounter
       /\ credentials' = out.st.credentials
       /\ usedHashes' = out.st.usedHashes
       /\ issuerCredentials' = out.st.issuerCredentials
       /\ owners' = out.st.owners
       /\ issued' = IssuedOf(out.st)
       /\ UNCHANGED <<now, revokedCredentials, operatorApprovals, emergencyPaused,
                      roles, everRevoked, strictQuery, calls, response>>

\* claimCertificate up to the await of findOne and its result.
ClaimBegin(r, token) ==
    LET filter == CastFilter([claimToken |-> token, claimed |-> FALSE], strictQuery)
        found == {e \in EnrollmentIds : Matches(enrollments[e], filter)}
        req == [IdleRequest EXCEPT !.handler = "claimCertificate", !.token = token]
    IN /\ inflight[r].pc = "idle"
       /\ IF Len(token) = 0
          THEN inflight' = [inflight EXCEPT ![r] =
                                Answered(req, 400, "Claim token is required")]
          ELSE IF found = {}
          THEN inflight' = [inflight EXCEPT ![r] =
                                Answered(req, 404, "Invalid or expired claim token")]
          ELSE \E e \in found :
                inflight' = [inflight EXCEPT ![r] =
                                [req EXCEPT !.pc = "enrollment.save", !.enrollment = e]]
       /\ UNCHANGED <<now, ledgerVars, issued, everRevoked, enrollments, strictQuery,
                       certificates, pinned, calls, response>>

\* claimCertificate from the document found: mark it claimed, save, answer.
ClaimSave(r) ==
    /\ inflight[r].handler = "claimCertificate"
    /\ inflight[r].pc = "enrollment.save"
    /\ enrollments' = [enrollments EXCEPT ![inflight[r].enrollment].certificate =
                          CastCertificate([claimed |-> TRUE, claimedAt |-> "date"] @@ @)]
    /\ inflight' = [inflight EXCEPT ![r] =
                        Answered(@, 200, "Certificate claimed successfully")]
    /\ UNCHANGED <<now, ledgerVars, issued, everRevoked, strictQuery,
                   certificates, pinned, calls, response>>

\* The claim tokens the concurrent requests carry.
RaceClaimTokens == {GeneratedClaimToken("e1"), <<>>}

NextRace ==
    \/ \E r \in Requests, e \in EnrollmentIds : MintBegin(r, e)
    \/ \E r \in Requests, ipfsUp \in BOOLEAN : MintContinue(r, ipfsUp)
    \/ \E r \in Requests, token \in RaceClaimTokens : ClaimBegin(r, token)
    \/ \E r \in Requests : ClaimSave(r)

SpecRace == InitBackend /\ [][NextRace]_vars

\* ------------------------------------------------ the Certificate documents
\* certificate.revoke(reason) on the stored document of tokenId, and its save.
CertificateRevoke(tokenId, reason) ==
    /\ tokenId \in DOMAIN certificates
    /\ certificates' = [certificates EXCEPT ![tokenId] = revoke(@, reason)]
    /\ UNCHANGED <<now, ledgerVars, issued, everRevoked, enrollments, strictQuery,
                   pinned, calls, response, inflight>>

\* certificate.transfer(newRecipientId, newRecipientAddress), and its save.
CertificateTransfer(tokenId, newRecipientId, newRecipientAddress) ==
    /\ tokenId \in DOMAIN certificates
    /\ certificates' = [certificates EXCEPT
                            ![tokenId] = transfer(@, newRecipientId, newRecipientAddress)]
    /\ UNCHANGED <<now, ledgerVars, issued, everRevoked, enrollments, strictQuery,
                   pinned, calls, response, inflight>>

RevokeReasons == {"fraud", "error"}

\* The methods of the Certificate documents, called in any order.
NextRecords ==
    \/ \E tokenId \in RequestTokenIds, reason \in RevokeReasons :
            CertificateRevoke(tokenId, reason)
    \/ \E tokenId \in RequestTokenIds, e \in EnrollmentIds :
            CertificateTransfer(tokenId, UserOf(e), WalletAddress(e))

SpecRecords == InitBackend /\ [][NextRecords]_vars

\* ------------------------------------------------------ role administration
GrantRole(sender, role, account) ==
    LET r == grantRole(Ledger, sender, role, account) IN
    /\ r.ok
    /\ Commit(r)

RevokeRole(sender, role, account) ==
    LET r == revokeRole(Ledger, sender, role, account) IN
    /\ r.ok
    /\ Commit(r)

\* The roles the contract's checks read, and the accounts they are given to.
GrantedRoles == {ISSUER_ROLE, DEFAULT_ADMIN_ROLE}
Grantees == {Deployer, "alice"}

\* One transferable and one soulbound credential, and a batch of each.
RoleMintInputs ==
    {MintInput("alice", Str(1), Str(1), Str(1), 1, FALSE, 0),
     MintInput("bob", Str(2), Str(1), Str(1), 1, TRUE, 0)}
RoleBatchRequests == {Request(<<in>>) : in \in RoleMintInputs}

\* The contract with its roles granted and revoked by their admins.
NextRoles ==
    \/ \E sender \in Accounts, role \in GrantedRoles, account \in Grantees :
            GrantRole(sender, role, account)
    \/ \E sender \in Accounts, role \in GrantedRoles, account \in Grantees :
            RevokeRole(sender, role, account)
    \/ \E sender \in Accounts, in \in RoleMintInputs : MintCredential(sender, in)
    \/ \E sender \in Accounts, request \in RoleBatchRequests :
            BatchMintCredentials(sender, request)
    \/ \E sender \in Accounts, tokenId \in TokenIds : RevokeCredential(sender, tokenId)
    \/ \E sender \in Accounts, tokenId \in TokenIds : Burn(sender, tokenId)

SpecRoles == Init /\ [][NextRoles]_vars

\* ---------------------------------------------------------------- claims
\* Some transfer entry point moves tokenId for some caller and addresses.
AnyTransferSucceeds(tokenId) ==
    \E fn \in TransferFns, sender \in Accounts, from \in Accounts,
       to \in Accounts \cup {ZeroAddress} :
        CallTransfer(fn, Ledger, sender, from, to, tokenId).ok

\* Token t was minted for the pair of the input.
SamePair(t, in) ==
    issued[t].courseHash = in.courseHash /\ issued[t].studentHash = in.studentHash

\* C1: issuing a (courseHash, studentHash) pair with otherwise valid inputs
\* succeeds exactly once: when no token was ever minted for the pair the
\* issuance creates a token, and when one was it fails with the duplicate
\* error and leaves the ledger as it is.
C1_IssuedExactlyOnce ==
    \A in \in WellFormedInputs :
        (in.validUntil = 0 \/ in.validUntil > now) =>
            LET r == mintCredential(Ledger, Deployer, in) IN
            IF \E t \in DOMAIN issued : SamePair(t, in)
            THEN ~r.ok /\ r.err = "Credential already exists" /\ r.st = Ledger
            ELSE r.ok /\ r.st.tokenIdCounter = tokenIdCounter + 1

\* C2: a token minted soulbound stays with the address it was minted to: no
\* transfer entry point moves it for any caller, and the transfer hook rejects
\* every move of it from a holder.
C2_SoulboundNeverMoves ==
    \A t \in DOMAIN issued :
        issued[t].isSoulbound =>
            /\ t \in DOMAIN owners
            /\ owners[t] = issued[t].to
            /\ ~AnyTransferSucceeds(t)
            /\ \A from \in Accounts, to \in Accounts \cup {ZeroAddress} :
                    _beforeTokenTransfer(Ledger, from, to, t) # ""

\* A soulbound token whose holder has approved an operator, beside a
\* transferable token that has moved to another holder.
C2_Witness ==
    \E t \in DOMAIN issued, u \in DOMAIN owners :
        /\ issued[t].isSoulbound
        /\ <<issued[t].to, Deployer>> \in operatorApprovals
        /\ ~issued[u].isSoulbound
        /\ owners[u] # issued[u].to

\* C3: a token that revokeCredential has revoked is never reported valid by
\* verifyCredential again, whatever operations follow.
C3_RevocationIrreversible ==
    \A t \in everRevoked : ~verifyCredential(Ledger, t)[1]

\* A revoked token with a later token minted after it, its verification flag
\* set and the emergency flag raised.
C3_Witness ==
    \E t \in everRevoked :
        /\ t \in DOMAIN credentials
        /\ credentials[t].isVerified
        /\ emergencyPaused
        /\ tokenIdCounter > t

\* C4: a transferable permanent credential that is not revoked verifies as
\* valid; a revoked one verifies as revoked; a transfer succeeds only for a
\* token that exists, is not revoked, not soulbound and not expired.
C4_TransferOnlyWhileActive ==
    \A t \in TokenIds :
        /\ (/\ t \in DOMAIN owners
            /\ t \notin revokedCredentials
            /\ credentials[t].validUntil = 0)
                => verifyCredential(Ledger, t) = <<TRUE, "Credential is valid">>
        /\ (t \in DOMAIN owners /\ t \in revokedCredentials)
                => verifyCredential(Ledger, t) = <<FALSE, "Credential has been revoked">>
        /\ AnyTransferSucceeds(t)
                => /\ t \in DOMAIN owners
                   /\ t \notin revokedCredentials
                   /\ ~credentials[t].isSoulbound
                   /\ ~ExpiredAt(credentials[t], now)

\* A transferable permanent token that moved to another holder and was then
\* revoked.
C4_Witness ==
    \E t \in DOMAIN owners :
        /\ ~credentials[t].isSoulbound
        /\ credentials[t].validUntil = 0
        /\ owners[t] # issued[t].to
        /\ t \in revokedCredentials

\* C5: a credential whose validUntil is nonzero and in the past, which was
\* never revoked or burned, verifies as invalid with the expired reason, and
\* its stored record is the one that was minted.
C5_ExpiredByClock ==
    \A t \in DOMAIN owners :
        (/\ credentials[t].validUntil > 0
         /\ credentials[t].validUntil < now
         /\ t \notin everRevoked)
            => /\ verifyCredential(Ledger, t) = <<FALSE, "Credential has expired">>
               /\ isCredentialExpired(Ledger, t)
               /\ t \notin revokedCredentials
               /\ credentials[t].courseHash = issued[t].courseHash
               /\ credentials[t].studentHash = issued[t].studentHash

\* A minted token, never revoked, whose validUntil has passed.
C5_Witness ==
    \E t \in DOMAIN owners :
        /\ credentials[t].validUntil > 0
        /\ credentials[t].validUntil < now
        /\ t \notin everRevoked

\* C6: when the adapter's transfer of a token to an address has succeeded, the
\* adapter's verify of that token for that address reports it valid, owned by
\* that address.
C6_TransferThenVerify ==
    [][\A from \in Holders, to \in Holders, tokenId \in TokenIds :
            TransferCertificate(from, to, tokenId) =>
                LET v == verifyCertificate(Ledger', tokenId, to) IN
                v.isValid /\ v.owner = to]_vars

\* C7: a claim with the token generated for an enrollment that has a
\* certificate succeeds while the certificate is unclaimed, marking that
\* enrollment claimed, and fails with the invalid-or-expired error, changing
\* nothing, once it is claimed.
C7_ClaimOnce ==
    [][\A e \in EnrollmentIds :
            (/\ ClaimCertificate(GeneratedClaimToken(e))
             /\ "tokenId" \in DOMAIN enrollments[e].certificate)
                => IF ~enrollments[e].certificate.claimed
                   THEN /\ response'.status = 200
                        /\ response'.enrollment = e
                        /\ enrollments'[e].certificate.claimed
                   ELSE /\ response'.status = 404
                        /\ enrollments' = enrollments]_vars

\* C8: the response of verify to a caller who is not the recipient, the issuer
\* or an administrator holds no name, email or evaluation of the recipient.
C8_NoPersonalData ==
    (response.handler = "verifyCertificate" /\ response.caller \in {"anonymous", "stranger"})
        => DOMAIN response.metadata \cap {"studentName", "studentEmail", "score"} = {}

\* C9: a batch of more than MaxBatchSize items fails for every caller and
\* leaves the ledger as it is; for an issuer it fails on the batch size.
C9_OversizeBatchRejected ==
    \A sender \in Accounts :
        LET r == batchMintCredentials(Ledger, sender, OversizeRequest) IN
        /\ ~r.ok
        /\ r.st = Ledger
        /\ hasRole(Ledger, ISSUER_ROLE, sender) => r.err = "Batch size too large"

\* The oversize batch is rejected on its size on a ledger that holds tokens
\* and could take every pair of the batch.
C9_Witness ==
    /\ tokenIdCounter > 0
    /\ \A i \in 1..Len(OversizeRequest.recipients) :
            credentialHash(OversizeRequest.courseHashes[i],
                           OversizeRequest.studentHashes[i]) \notin usedHashes
    /\ batchMintCredentials(Ledger, Deployer, OversizeRequest).err = "Batch size too large"

\* C10: the registry holds exactly the commitments of the tokens that exist,
\* and the pair of a burned token can be minted again.
C10_BurnFreesSlot ==
    /\ usedHashes =
            {credentialHash(credentials[t].courseHash, credentials[t].studentHash) :
                t \in DOMAIN owners}
    /\ \A t \in DOMAIN issued \ DOMAIN owners :
            (\A u \in DOMAIN owners :
                credentialHash(credentials[u].courseHash, credentials[u].studentHash)
                    # credentialHash(issued[t].courseHash, issued[t].studentHash))
                => mintCredential(Ledger, Deployer,
                                  MintInput(issued[t].to, issued[t].courseHash,
                                            issued[t].studentHash, Str(1), 1, FALSE, 0)).ok

\* C11: burn by the holder succeeds for every revocable token that is active
\* (not revoked, not expired) and for every revocable token that is revoked,
\* and after it the token does not exist.
C11_BurnFromActiveOrRevoked ==
    \A t \in DOMAIN owners :
        (/\ credentials[t].isRevocable
         /\ (t \in revokedCredentials \/ ~ExpiredAt(credentials[t], now)))
            => LET r == burn(Ledger, owners[t], t) IN
               r.ok /\ ~_exists(r.st, t)

\* C12: the adapter's verify reports a token valid exactly when the contract
\* reports it valid (it exists, is not revoked and not expired) and, when an
\* expected owner is given, the token's owner is that address; with only a
\* token id an active credential verifies as valid.
C12_AdapterVerify ==
    \A tokenId \in TokenIds, expectedOwner \in OwnerAddresses :
        verifyCertificate(Ledger, tokenId, expectedOwner).isValid
            = (/\ verifyCredential(Ledger, tokenId)[1]
               /\ (expectedOwner = Undefined \/ owners[tokenId] = expectedOwner))

\* C13: a mint request for an enrollment that is not in the collection, not
\* completed, not passed or already has a token id is refused with a 4xx
\* answer before the metadata store, the ledger adapter, the record store or
\* the notification service is called, and changes no state.
C13_FailFast ==
    [][\A userId \in UserIds, enrollmentId \in RequestEnrollmentIds,
          ipfsUp \in BOOLEAN, emailUp \in BOOLEAN :
            (/\ ~(/\ enrollmentId \in EnrollmentIds
                  /\ enrollments[enrollmentId].status = "completed"
                  /\ enrollments[enrollmentId].passed
                  /\ "tokenId" \notin DOMAIN enrollments[enrollmentId].certificate)
             /\ response'.handler = "mintCertificate"
             /\ MintCertificate(userId, enrollmentId, ipfsUp, emailUp))
                => /\ calls' = {}
                   /\ response'.status \in {400, 403, 404}
                   /\ UNCHANGED <<ledgerVars, enrollments, certificates, pinned>>]_vars

\* The answer to a mint request for an enrollment that already has a
\* certificate, no external system having been called.
C13_Witness ==
    /\ response.handler = "mintCertificate"
    /\ response.status = 400
    /\ response.message = "Certificate already minted"
    /\ "tokenId" \in DOMAIN enrollments[response.enrollment].certificate
    /\ calls = {}

\* C14: a mint request of the owner of an eligible enrollment, with the
\* metadata store up, the ledger accepting the credential and the email
\* service failing, is answered as a success; the token, the Certificate
\* record and the enrollment's claim token exist after it.
C14_EmailFailureIsNotAFailure ==
    [][\A e \in EnrollmentIds :
            (/\ MintCertificate(UserOf(e), e, TRUE, FALSE)
             /\ Eligibility(enrollments, UserOf(e), e).status = 0
             /\ mintCredential(Ledger, Signer, EnrollmentMintInput(e)).ok)
                => /\ response'.status = 200
                   /\ "tokenId" \in DOMAIN enrollments'[e].certificate
                   /\ "claimToken" \in DOMAIN enrollments'[e].certificate
                   /\ enrollments'[e].certificate.tokenId \in DOMAIN certificates'
                   /\ _exists(Ledger', ParseUint(enrollments'[e].certificate.tokenId))]_vars

\* C15: while isPaused() reports true no mint, no batch mint and no transfer
\* succeeds.
C15_PausedBlocksMintAndTransfer ==
    isPaused(Ledger) =>
        /\ \A sender \in Accounts, in \in MintInputs :
                ~mintCredential(Ledger, sender, in).ok
        /\ \A sender \in Accounts, request \in BatchRequests :
                ~batchMintCredentials(Ledger, sender, request).ok
        /\ \A tokenId \in TokenIds : ~AnyTransferSucceeds(tokenId)

\* C16: ownerOf fails for every burned token, and totalSupply() is the number
\* of credentials that exist.
C16_SupplyCountsExisting ==
    /\ \A t \in DOMAIN issued \ DOMAIN owners : ~ownerOf(Ledger, t).ok
    /\ totalSupply(Ledger) = Cardinality(DOMAIN owners)

\* C17: revoke of an existing token fails when the credential is not
\* revocable, with the not-revocable error for a caller who is the token's
\* issuer or an administrator; when it is revocable, revoke fails as
\* unauthorized for a caller who is neither and succeeds, setting the revoked
\* flag, for a caller who is the issuer or an administrator; a failed revoke
\* changes nothing.
C17_RevokeErrors ==
    \A t \in DOMAIN owners, sender \in Accounts :
        LET r == revokeCredential(Ledger, sender, t)
            entitled == \/ credentials[t].issuer = sender
                        \/ hasRole(Ledger, DEFAULT_ADMIN_ROLE, sender)
            unauthorized == {"AccessControl: missing role",
                             "Not authorized to revoke this credential"}
        IN /\ ~r.ok => r.st = Ledger
           /\ ~credentials[t].isRevocable => ~r.ok
           /\ (~credentials[t].isRevocable /\ entitled)
                => r.err = "Credential is not revocable"
           /\ (credentials[t].isRevocable /\ ~entitled) => r.err \in unauthorized
           /\ (credentials[t].isRevocable /\ entitled)
                => r.ok /\ t \in r.st.revokedCredentials

\* C18: burn of an existing token succeeds only for a caller who is its holder
\* or approved and only when the token is not soulbound; a burn by any other
\* address fails with "Caller is not owner nor approved", a burn of a soulbound
\* token fails, and a failed burn leaves the storage as it was.
C18_BurnOnlyByHolderNotSoulbound ==
    \A t \in DOMAIN owners, sender \in Accounts :
        LET r == burn(Ledger, sender, t) IN
        /\ r.ok => _isApprovedOrOwner(Ledger, sender, t) /\ ~credentials[t].isSoulbound
        /\ ~_isApprovedOrOwner(Ledger, sender, t)
                => r.err = "Caller is not owner nor approved" /\ r.st = Ledger
        /\ credentials[t].isSoulbound => ~r.ok /\ r.st = Ledger

\* A token has been burned, and a soulbound token exists whose holder and
\* whose non-holder are both refused.
C18_Witness ==
    /\ DOMAIN issued \ DOMAIN owners # {}
    /\ \E t \in DOMAIN owners :
        /\ credentials[t].isSoulbound
        /\ burn(Ledger, owners[t], t).err = "Soulbound tokens cannot be burned"
        /\ burn(Ledger, "bob", t).err = "Caller is not owner nor approved"

\* C19: mintCredential and batchMintCredentials called by an address without
\* ISSUER_ROLE fail and leave the storage as it was, and the issuer of every
\* token that comes into existence holds ISSUER_ROLE when it is minted.
C19_OnlyIssuersMint ==
    /\ [](\A sender \in Accounts :
            ~hasRole(Ledger, ISSUER_ROLE, sender) =>
                /\ \A in \in MintInputs :
                        LET r == mintCredential(Ledger, sender, in) IN
                        ~r.ok /\ r.st = Ledger
                /\ \A request \in BatchRequests :
                        LET r == batchMintCredentials(Ledger, sender, request) IN
                        ~r.ok /\ r.st = Ledger)
    /\ [][\A t \in DOMAIN owners' \ DOMAIN owners :
            hasRole(Ledger, ISSUER_ROLE, credentials'[t].issuer)]_vars

\* A token minted by alice while she was an issuer exists, and she is no
\* longer one.
C19_Witness ==
    \E t \in DOMAIN owners :
        /\ credentials[t].issuer = "alice"
        /\ ~hasRole(Ledger, ISSUER_ROLE, "alice")

\* C20: for a certificate that has a token and a record, getCertificate
\* answers the recipient, the issuer and an administrator with the sensitive
\* fields, and every other caller, logged in or not, with the hash-level
\* fields without the sensitive fields and without the fetched metadata.
C20_SensitiveFieldsOnlyForEntitled ==
    (/\ response.handler = "getCertificate"
     /\ response.tokenId \in DOMAIN certificates
     /\ _exists(Ledger, ParseUint(response.tokenId)))
        => LET certificate == certificates[response.tokenId]
               entitled == \/ certificate.recipientId = response.user
                           \/ certificate.issuerId = response.user
                           \/ (response.user # Undefined /\ RoleOf(response.user) = "admin")
           IN /\ response.status = 200
              /\ HashLevelFields \subseteq response.fields
              /\ entitled => SensitiveFields \subseteq response.fields
              /\ ~entitled => response.fields \cap (SensitiveFields \cup {"metadata"}) = {}

\* The issuance constraints of mintCredential on a credential stored at time
\* timestamp for the recipient to.
SatisfiesConstraints(cred, to, timestamp) ==
    /\ to # ZeroAddress
    /\ Len(cred.courseHash) > 0
    /\ Len(cred.studentHash) > 0
    /\ Len(cred.ipfsMetadata) > 0
    /\ cred.credentialType \in 1..4
    /\ (cred.validUntil = 0 \/ cred.validUntil > timestamp)

\* C24: every credential that comes to be stored, by mintCredential or by
\* batchMintCredentials, satisfies the issuance constraints at its mint time.
C24_StoredCredentialsSatisfyConstraints ==
    [][\A t \in DOMAIN credentials' \ DOMAIN credentials :
            SatisfiesConstraints(credentials'[t], owners'[t], now)]_vars

\* The arrays of a request all have the length of recipients.
WellShaped(request) ==
    \A f \in DOMAIN request : Len(request[f]) = Len(request.recipients)

\* Item i of the request violates an invariant of issuance on the ledger s:
\* its pair is registered, or repeats an earlier item's, or it breaks an
\* issuance constraint.
ItemViolates(s, request, i) ==
    \/ credentialHash(request.courseHashes[i], request.studentHashes[i]) \in s.usedHashes
    \/ \E j \in 1..(i - 1) :
            /\ request.courseHashes[j] = request.courseHashes[i]
            /\ request.studentHashes[j] = request.studentHashes[i]
    \/ ~SatisfiesConstraints([courseHash |-> request.courseHashes[i],
                              studentHash |-> request.studentHashes[i],
                              ipfsMetadata |-> request.ipfsMetadata[i],
                              credentialType |-> request.credentialTypes[i],
                              validUntil |-> request.validUntils[i]],
                             request.recipients[i], s.now)

\* C25: a batch with an item that violates an invariant mints nothing and
\* leaves the ledger as it was.
C25_BatchAllOrNothing ==
    \A request \in {q \in BatchRequests : WellShaped(q)} :
        (\E i \in 1..Len(request.recipients) : ItemViolates(Ledger, request, i))
            => LET r == batchMintCredentials(Ledger, Deployer, request) IN
               ~r.ok /\ r.st = Ledger

\* C28: pairs that differ in a component have different registry keys, and a
\* mint with valid inputs for a pair that was never issued is not rejected as
\* a duplicate.
C28_CommitmentInjective ==
    /\ \A p \in Pairs, q \in Pairs :
            p # q => credentialHash(p[1], p[2]) # credentialHash(q[1], q[2])
    /\ \A in \in WellFormedInputs :
            (\A t \in DOMAIN issued : ~SamePair(t, in))
                => mintCredential(Ledger, Deployer, in).err # "Credential already exists"

\* C30: a Certificate document that is revoked has status 'revoked', whatever
\* revoke and transfer calls followed its revocation.
C30_RevokedStaysRevoked ==
    \A tokenId \in DOMAIN certificates :
        certificates[tokenId].isRevoked => certificates[tokenId].status = "revoked"

\* C27: for every mintCredential transaction of the service wallet that is
\* confirmed, the adapter reads the minted token id from the receipt and
\* returns it instead of throwing.
C27_ConfirmedMintIsReported ==
    \A in \in WellFormedInputs :
        LET tx == mintCredential(Ledger, Signer, in) IN
        tx.ok => LET read == tokenIdFromReceipt(LogsOfMint(tx.ret)) IN
                 read.ok /\ read.ret = toString(tx.ret)

\* C23: a mint request whose metadata upload fails never reaches the ledger
\* adapter and leaves the ledger, the Certificate records and the enrollments
\* as they were; and whenever the ledger adapter was called, the upload had
\* returned a content id.
C23_UploadFailureAbortsBeforeLedger ==
    \A userId \in UserIds, enrollmentId \in EnrollmentIds, emailUp \in BOOLEAN :
        Eligibility(enrollments, userId, enrollmentId).status = 0 =>
            LET failed == IssueCertificate(Ledger, enrollments, certificates, pinned,
                                           userId, enrollmentId, FALSE, emailUp)
                stored == IssueCertificate(Ledger, enrollments, certificates, pinned,
                                           userId, enrollmentId, TRUE, emailUp)
            IN /\ "ledger" \notin failed.calls
               /\ failed.status = 500
               /\ failed.st = Ledger
               /\ failed.certs = certificates
               /\ failed.docs = enrollments
               /\ "ledger" \in stored.calls
                    => "ipfs" \in stored.calls /\ enrollmentId \in stored.pins

\* An eligible request has failed at the upload: only the metadata store was
\* called, and the enrollment has no certificate.
C23_Witness ==
    /\ response.handler = "mintCertificate"
    /\ response.status = 500
    /\ calls = {"ipfs"}
    /\ "tokenId" \notin DOMAIN enrollments[response.enrollment].certificate

\* C26: every Certificate record names, under its own key, a token that was
\* minted on the ledger, no two records share a token id, and an enrollment
\* carries a token id only if a Certificate record with that id exists.
C26_RecordsProjectTheLedger ==
    /\ \A tokenId \in DOMAIN certificates :
            /\ certificates[tokenId].tokenId = tokenId
            /\ ParseUint(tokenId) \in DOMAIN issued
            /\ toString(ParseUint(tokenId)) = tokenId
    /\ \A a \in DOMAIN certificates, b \in DOMAIN certificates :
            certificates[a].tokenId = certificates[b].tokenId => a = b
    /\ \A e \in EnrollmentIds :
            "tokenId" \in DOMAIN enrollments[e].certificate
                => enrollments[e].certificate.tokenId \in DOMAIN certificates

\* A request went as far as the ledger adapter and failed there: the
\* enrollment it named has no linkage and no record, next to an enrollment
\* that has both.
C26_Witness ==
    /\ response.handler = "mintCertificate"
    /\ "ledger" \in calls
    /\ "tokenId" \notin DOMAIN enrollments[response.enrollment].certificate
    /\ \A tokenId \in DOMAIN certificates :
            certificates[tokenId].recipientId # UserOf(response.enrollment)
    /\ DOMAIN certificates # {}

\* C29: after a failed issuance for an enrollment that is still eligible, a
\* retry by the same user can complete: for some behaviour of the metadata
\* store and the email service it ends with a Certificate record and the
\* linkage on the enrollment.
C29_RetryCanComplete ==
    (/\ response.handler = "mintCertificate"
     /\ response.status = 500
     /\ Eligibility(enrollments, response.user, response.enrollment).status = 0)
        => \E ipfsUp \in BOOLEAN, emailUp \in BOOLEAN :
            LET out == IssueCertificate(Ledger, enrollments, certificates, pinned,
                                        response.user, response.enrollment,
                                        ipfsUp, emailUp)
                doc == out.docs[response.enrollment]
            IN /\ "tokenId" \in DOMAIN doc.certificate
               /\ doc.certificate.tokenId \in DOMAIN out.certs

\* C21: when two concurrent issuance requests for the same enrollment have
\* both passed the already-minted pre-check and both have ended, exactly one
\* token exists on the ledger for the enrollment's commitment, at most one
\* Certificate record exists for it, and one of the requests has failed with
\* the ledger's rejection.
C21_ConcurrentIssuanceMintsOnce ==
    \A a \in Requests, b \in Requests :
        (/\ a # b
         /\ inflight[a].handler = "mintCertificate"
         /\ inflight[b].handler = "mintCertificate"
         /\ inflight[a].enrollment = inflight[b].enrollment
         /\ inflight[a].pc = "done" /\ inflight[b].pc = "done"
         /\ inflight[a].status \notin {400, 403, 404}
         /\ inflight[b].status \notin {400, 403, 404})
            => LET in == EnrollmentMintInput(inflight[a].enrollment) IN
               /\ Cardinality({t \in DOMAIN owners :
                                /\ credentials[t].courseHash = in.courseHash
                                /\ credentials[t].studentHash = in.studentHash}) = 1
               /\ Cardinality({tokenId \in DOMAIN certificates :
                                certificates[tokenId].recipientId
                                    = UserOf(inflight[a].enrollment)}) <= 1
               /\ \E loser \in {a, b} :
                    inflight[loser].message = "Failed to mint certificate: execution reverted"

\* C22: of two concurrent claim requests with the same token that found the
\* same enrollment, at most one is answered with success.
C22_ConcurrentClaimOnce ==
    \A a \in Requests, b \in Requests :
        (/\ a # b
         /\ inflight[a].handler = "claimCertificate"
         /\ inflight[b].handler = "claimCertificate"
         /\ inflight[a].token = inflight[b].token
         /\ inflight[a].enrollment = inflight[b].enrollment)
            => ~(inflight[a].status = 200 /\ inflight[b].status = 200)

====
